---- MODULE Spec2Model ----
(***************************************************************************)
(* Model of the show enrichment pass (the query function of useAllShows)   *)
(* and of the display buckets derived from its result                      *)
(* (useCategorizedShows), src/hooks/useShows.ts, with the day arithmetic   *)
(* of src/utils/dateUtils.ts.                                              *)
(*                                                                         *)
(* Further parts: the allShows query cache and its mutations (CacheSpec),  *)
(* the auth store with its credential storage (AuthSpec, and AuthLiveSpec *)
(* with fair continuations), the countdown helpers (DateSpec), the        *)
(* sub-filters of the home screen and the buckets as rendered             *)
(* (RenderSpec).                                                           *)
(*                                                                         *)
(* JavaScript values that may be absent are modelled as tagged records:    *)
(* Undefined, Null, Num(n).  Times are whole hours.  The clock does not    *)
(* advance inside one pass.                                                *)
(***************************************************************************)
EXTENDS Integers, Sequences, FiniteSets

\* ------------------------------------------------------------------ bounds

\* Show identifiers are 1..MaxShows.
MaxShows == 2
\* Longest watchlist response and longest watched-history response.
MaxWatchlist == 2
MaxWatched == 1

\* ------------------------------------------------------- program constants

HoursPerDay == 24
\* The sort key of the Running bucket for an absent daysUntilNext.
NoDateSortKey == 9999

\* ------------------------------------------------------------ JS values

Undefined == [tag |-> "undefined"]
Null == [tag |-> "null"]
Num(n) == [tag |-> "num", v |-> n]
Rejected == [tag |-> "rejected"]
NotAsked == [tag |-> "notasked"]
\* An array, where a value of another kind may stand too.
List(seq) == [tag |-> "list", items |-> seq]

IsNum(x) == x.tag = "num"
\* x ?? d
Coalesce(x, d) == IF x.tag \in {"undefined", "null"} THEN d ELSE x

ShowIds == 1..MaxShows

WAITING_STATUSES == {"planned", "in production", "upcoming", "pilot"}
RUNNING_STATUSES == {"returning series", "continuing"}
ENDED_STATUSES == {"ended", "canceled"}
ShowStatus == RUNNING_STATUSES \cup WAITING_STATUSES \cup ENDED_STATUSES

\* A full show record (watchlist item, show details) carries a status; the
\* abbreviated record of the watched-history listing does not.
FullShow(id, st) == [tag |-> "show", ids |-> id, status |-> st]
AbbreviatedShow(id) == [tag |-> "show", ids |-> id, status |-> "undefined"]

\* ------------------------------------------------------------ dateUtils

Abs(n) == IF n < 0 THEN -n ELSE n
Sign(n) == IF n < 0 THEN -1 ELSE IF n > 0 THEN 1 ELSE 0

\* Floor division for a possibly negative dividend.
FloorDiv(a, b) == IF a >= 0 THEN a \div b ELSE -((-a + b - 1) \div b)

\* date-fns differenceInCalendarDays: the calendar days between two instants.
DifferenceInCalendarDays(left, right) ==
  FloorDiv(left, HoursPerDay) - FloorDiv(right, HoursPerDay)

\* date-fns differenceInDays: the number of FULL days between two instants,
\* i.e. the calendar-day difference less one when the last day is not full.
DifferenceInDays(left, right) ==
  LET sign == Sign(left - right)
      difference == Abs(DifferenceInCalendarDays(left, right))
      shifted == left - sign * difference * HoursPerDay
      isLastDayNotFull == IF Sign(shifted - right) = -sign /\ sign # 0 THEN 1 ELSE 0
  IN  sign * (difference - isLastDayNotFull)

\* daysUntil(isoDate): null without a date, else differenceInDays(target, now).
daysUntil(isoDate, clock) ==
  IF ~IsNum(isoDate) THEN Null ELSE Num(DifferenceInDays(isoDate.v, clock))

\* ------------------------------------------------------- service responses

\* Air times of the episodes the service reports, as offsets from the clock:
\* more than a day ago, a few hours ago, ten days ahead.
AirOffsets == {-30, -5, 240}
\* Clock readings: one hour after midnight of some day.
NowSamples == {HoursPerDay * 100 + 1}
\* (aired, completed) of a progress response; completed > aired is tolerated.
ProgressCounts == {<<0, 0>>, <<2, 1>>, <<2, 2>>, <<1, 2>>}
LastWatchedSamples == {Num(HoursPerDay * 90)}

Episode(src, fa) == [tag |-> "episode", src |-> src, first_aired |-> fa]
EpisodesOf(src, clock) ==
  {Episode(src, Null)} \cup {Episode(src, Num(clock + o)) : o \in AirOffsets}

Progress(a, c, ne) ==
  [tag |-> "progress", aired |-> a, completed |-> c, next_episode |-> ne]

\* GET /users/me/watchlist/shows: the items may be of any media type; a movie
\* item has no show payload, an episode item names the show it belongs to.
WatchlistItem(k, ty, sh) == [type |-> ty, show |-> sh, id |-> k]
WatchlistKinds ==
  {<<"show", FullShow(i, st)>> : i \in ShowIds, st \in ShowStatus}
    \cup {<<"show", Null>>, <<"movie", Null>>}
    \cup {<<"episode", FullShow(i, "returning series")>> : i \in ShowIds}
WatchlistResponses ==
  UNION {{[k \in 1..n |-> WatchlistItem(k, f[k][1], f[k][2])] :
            f \in [1..n -> WatchlistKinds]} : n \in 0..MaxWatchlist}

\* GET /users/me/watched/shows?extended=noseasons: abbreviated show records.
WatchedItem(i, lw) == [show |-> AbbreviatedShow(i), last_watched_at |-> lw]
WatchedKinds == {WatchedItem(i, lw) : i \in ShowIds, lw \in LastWatchedSamples}
WatchedResponses == UNION {[1..n -> WatchedKinds] : n \in 0..MaxWatched}

\* GET /shows/:slug?extended=full
DetailResponses(id) == {Rejected} \cup {FullShow(id, st) : st \in ShowStatus}
\* GET /shows/:slug/progress/watched
ProgressResponses(clock) ==
  {Rejected} \cup
  {Progress(c[1], c[2], ne) :
     c \in ProgressCounts, ne \in {Null} \cup EpisodesOf("progress", clock)}
\* GET /shows/:slug/next_episode: an episode, no content, or a failure.
NextEpisodeResponses(clock) ==
  {Rejected, Null} \cup EpisodesOf("next_episode", clock)

\* ------------------------------------------------------------- JS helpers

\* Array.prototype.filter
FilterSeq(seq, Keep(_)) ==
  LET F[i \in 0..Len(seq)] ==
        IF i = 0 THEN <<>>
        ELSE IF Keep(seq[i]) THEN Append(F[i - 1], seq[i]) ELSE F[i - 1]
  IN  F[Len(seq)]

\* Array.prototype.findIndex, 1-based; 0 when no element matches (JS -1).
FindIndex(seq, Test(_)) ==
  IF \E k \in DOMAIN seq : Test(seq[k])
  THEN CHOOSE k \in DOMAIN seq : Test(seq[k]) /\ \A j \in 1..(k - 1) : ~Test(seq[j])
  ELSE 0

\* A Map as the sequence of its <<key, value>> pairs in insertion order.
MapHas(map, key) == \E k \in DOMAIN map : map[k][1] = key
\* Mutant: the entries kept in an array that is pushed to, not in a Map.
MapSet_AlwaysAppend(map, key, val) == Append(map, <<key, val>>)
\* Map.prototype.set: a new key is appended, a known key keeps its position.
MapSet(map, key, val) ==
  IF MapHas(map, key)
  THEN [k \in DOMAIN map |-> IF map[k][1] = key THEN <<key, val>> ELSE map[k]]
  ELSE Append(map, <<key, val>>)
\* Array.from(map.values())
MapValues(map) == [k \in DOMAIN map |-> map[k][2]]

\* Array.prototype.sort with the comparator a, b |-> Key(a) - Key(b): stable,
\* so an element goes behind the elements whose key is not greater.
InsertSorted(sorted, x, Key(_)) ==
  LET p == Cardinality({j \in DOMAIN sorted : Key(sorted[j]) <= Key(x)})
  IN  SubSeq(sorted, 1, p) \o <<x>> \o SubSeq(sorted, p + 1, Len(sorted))
StableSort(seq, Key(_)) ==
  LET S[i \in 0..Len(seq)] ==
        IF i = 0 THEN <<>> ELSE InsertSorted(S[i - 1], seq[i], Key)
  IN  S[Len(seq)]

\* ------------------------------------------------- useAllShows: the merge

\* An EnrichedShow; the fields an object literal leaves out are Undefined.
Entry(sh, cat, wid, lw, pr, ne, du) ==
  [show |-> sh, category |-> cat, watchlistId |-> wid, lastWatchedAt |-> lw,
   progress |-> pr, nextEpisode |-> ne, daysUntilNext |-> du]

IsShowItem(i) == i.type = "show" /\ i.show # Null
showWatchlist(watchlistItems) == FilterSeq(watchlistItems, IsShowItem)

watchlistIds(watchlistItems) ==
  LET sw == showWatchlist(watchlistItems)
  IN  {sw[k].show.ids : k \in DOMAIN sw}

WatchlistEntry(item) ==
  Entry(item.show, "watchlist", Num(item.id), Null, Undefined, Undefined, Undefined)

\* for (const item of showWatchlist) allShowsMap.set(id, {...})
RECURSIVE AddWatchlistShows(_, _)
AddWatchlistShows(map, sw) ==
  IF sw = <<>> THEN map
  ELSE AddWatchlistShows(MapSet(map, Head(sw).show.ids, WatchlistEntry(Head(sw))),
                         Tail(sw))

watchedOnlyShows(watchedItems, wlIds) ==
  LET NotListed(w) == w.show.ids \notin wlIds
  IN  FilterSeq(watchedItems, NotListed)

\* Mutant: getShowDetails without the .catch fallback.
DetailOrFallback_NoCatch(w, resp) == resp
\* getShowDetails(...).catch(() => w.show)
DetailOrFallback(w, resp) == IF resp = Rejected THEN w.show ELSE resp

fullDetails(wos, detailResps) ==
  [k \in DOMAIN wos |-> DetailOrFallback(wos[k], detailResps[k])]

WatchedShowRecord(item, wlIds, wos, details) ==
  LET id == item.show.ids
      notInWatchlist == id \notin wlIds
      SameId(w) == w.show.ids = id
      detailIdx == FindIndex(wos, SameId)
  IN  IF notInWatchlist /\ detailIdx >= 1 THEN details[detailIdx] ELSE item.show

WatchedEntry(item, wlIds, wos, details) ==
  Entry(WatchedShowRecord(item, wlIds, wos, details), "watching", Undefined,
        item.last_watched_at, Undefined, Undefined, Undefined)

\* watchedItems.forEach((item) => allShowsMap.set(id, {...}))
RECURSIVE AddWatchedShows(_, _, _, _, _)
AddWatchedShows(map, items, wlIds, wos, details) ==
  IF items = <<>> THEN map
  ELSE AddWatchedShows(
         MapSet(map, Head(items).show.ids,
                WatchedEntry(Head(items), wlIds, wos, details)),
         Tail(items), wlIds, wos, details)

\* Mutant: the watchlist shows are set after the watched shows and override.
allShowsMap_WatchlistLast(watchlistItems, watchedItems, detailResps) ==
  LET wlIds == watchlistIds(watchlistItems)
      wos == watchedOnlyShows(watchedItems, wlIds)
  IN  AddWatchlistShows(
        AddWatchedShows(<<>>, watchedItems, wlIds, wos, fullDetails(wos, detailResps)),
        showWatchlist(watchlistItems))

allShowsMap(watchlistItems, watchedItems, detailResps) ==
  LET wlIds == watchlistIds(watchlistItems)
      wos == watchedOnlyShows(watchedItems, wlIds)
  IN  AddWatchedShows(AddWatchlistShows(<<>>, showWatchlist(watchlistItems)),
                      watchedItems, wlIds, wos, fullDetails(wos, detailResps))

\* ------------------------------------- useAllShows: per-show resolution

\* x?.first_aired is truthy
HasAirDate(ep) == ep.tag = "episode" /\ IsNum(ep.first_aired)

\* getNextEpisode: try { return response.data } catch { return null }
getNextEpisode(resp) == IF resp = Rejected THEN Null ELSE resp

IsCaughtUp(progress) == progress.aired > 0 /\ progress.completed >= progress.aired

\* Fetch the future premiere if: no episode, no date, or the date is past.
NeedsFutureEpisode(nextEpisode, clock) ==
  LET progressEpDays ==
        IF HasAirDate(nextEpisode) THEN daysUntil(nextEpisode.first_aired, clock)
        ELSE Null
  IN  ~HasAirDate(nextEpisode) \/ (progressEpDays # Null /\ progressEpDays.v < 0)

\* Mutant: the guard discards the countdown but keeps the episode.
StaleGuard_KeepsEpisode(progress, nextEpisode, daysUntilNext) ==
  IF IsCaughtUp(progress) /\ daysUntilNext # Null /\ daysUntilNext.v < 0
  THEN [nextEpisode |-> nextEpisode, daysUntilNext |-> Null]
  ELSE [nextEpisode |-> nextEpisode, daysUntilNext |-> daysUntilNext]

\* The stale-placeholder guard on the resolved candidate.
StaleGuard(progress, nextEpisode, daysUntilNext) ==
  IF IsCaughtUp(progress) /\ daysUntilNext # Null /\ daysUntilNext.v < 0
  THEN [nextEpisode |-> Null, daysUntilNext |-> Null]
  ELSE [nextEpisode |-> nextEpisode, daysUntilNext |-> daysUntilNext]

\* Mutant: every entry that is not being watched is tagged by its status.
DetermineCategory_FromStatus(entry) ==
  LET status == entry.show.status
  IN  IF entry.category = "watching" THEN "watching"
      ELSE IF status \in ENDED_STATUSES THEN "ended"
      ELSE IF status \in RUNNING_STATUSES THEN "running"
      ELSE IF status \in WAITING_STATUSES THEN "waiting"
      ELSE entry.category
\* Determine category
DetermineCategory(entry) ==
  LET status == entry.show.status
  IN  IF entry.category = "watching" THEN "watching"
      ELSE IF entry.category # "watchlist" THEN
        IF status \in ENDED_STATUSES THEN "ended"
        ELSE IF status \in RUNNING_STATUSES THEN "running"
        ELSE IF status \in WAITING_STATUSES THEN "waiting"
        ELSE entry.category
      ELSE entry.category

Enriched(entry, progress, nextEpisode, daysUntilNext) ==
  [entry EXCEPT !.category = DetermineCategory(entry), !.progress = progress,
                !.nextEpisode = nextEpisode, !.daysUntilNext = daysUntilNext]

\* Mutant: the callback without its try/catch.
CatchResolutionError_Rethrow(entry) == [threw |-> TRUE, value |-> entry]
\* catch { return entry }
CatchResolutionError(entry) == [threw |-> FALSE, value |-> entry]

\* The callback of the enrichment map for one entry, given what the progress
\* and next-episode requests answer if they are issued.  askedProgress and
\* askedNext tell which requests it issued.
ResolveEntry(entry, progressResp, nextResp, clock) ==
  LET status == entry.show.status
  IN
  IF entry.category = "watching" THEN
    IF progressResp = Rejected THEN
      LET caught == CatchResolutionError(entry)
      IN  [threw |-> caught.threw, value |-> caught.value,
           askedProgress |-> TRUE, askedNext |-> FALSE]
    ELSE
      LET progress == progressResp
          candidate == Coalesce(progress.next_episode, Null)
          returning == status \in RUNNING_STATUSES
          askNext == returning /\ NeedsFutureEpisode(candidate, clock)
          futureEp == getNextEpisode(nextResp)
          nextEpisode ==
            IF askNext /\ HasAirDate(futureEp) THEN futureEp ELSE candidate
          daysUntilNext ==
            IF HasAirDate(nextEpisode) THEN daysUntil(nextEpisode.first_aired, clock)
            ELSE Null
          guarded == StaleGuard(progress, nextEpisode, daysUntilNext)
      IN  [threw |-> FALSE,
           value |-> Enriched(entry, progress, guarded.nextEpisode,
                              guarded.daysUntilNext),
           askedProgress |-> TRUE, askedNext |-> askNext]
  ELSE IF status \in RUNNING_STATUSES THEN
    LET nextEpisode == getNextEpisode(nextResp)
        daysUntilNext ==
          IF HasAirDate(nextEpisode) THEN daysUntil(nextEpisode.first_aired, clock)
          ELSE Null
    IN  [threw |-> FALSE,
         value |-> Enriched(entry, Undefined, nextEpisode, daysUntilNext),
         askedProgress |-> FALSE, askedNext |-> TRUE]
  ELSE
    [threw |-> FALSE, value |-> Enriched(entry, Undefined, Undefined, Null),
     askedProgress |-> FALSE, askedNext |-> FALSE]

\* ------------------------------------------------------------- the state

VARIABLES
  now,             \* the clock (new Date()), in hours
  pc,              \* where the query function is
  watchlistResp,   \* what getWatchlist answered
  watchedResp,     \* what getWatchedShows answered
  detailResps,     \* what getShowDetails answered, per watched-only show
  allShows,        \* Array.from(allShowsMap.values()), the entries to enrich
  progressResps,   \* what getShowProgress answered, per entry
  nextResps,       \* what getNextEpisode answered, per entry
  enriched,        \* the settled results of the enrichment map, per entry
  data,            \* the cached value of the allShows query
  queryStatus      \* "pending", "success" or "error"

\* The query cache around the pass, the remote account and the mutations.
VARIABLES
  serverWatchlist, \* the identifiers on the remote watchlist
  serverWatched,   \* the identifiers in the remote watched-history
  fetchState,      \* the allShows query: "idle", "started" or "read"
  fetchResult,     \* what the query function in flight will resolve to
  mutations        \* the mutations: variables, context and position of each

\* The auth store, the persisted credentials and the store operations.
VARIABLES
  dateNow,         \* Date.now(), in milliseconds
  tokens,          \* the store: the token pair held, or null
  user,            \* the store: the profile, or null
  isLoading,       \* the store
  isAuthenticated, \* the store
  persisted,       \* the credential storage: the token pair saved, or null
  issued,          \* the number of token pairs the service has issued
  calls            \* the store operations: position and locals of each

\* A call of a date helper: its argument, the clock it reads, what it returns.
VARIABLES
  airDate,         \* the isoDate argument: a time in hours, null or undefined
  wallClock,       \* new Date() inside the helper, in hours
  daysResult,      \* what daysUntil(airDate) returned
  labelResult      \* what countdownLabel(airDate) returned

\* What the last run of useCategorizedShows returned.
VARIABLES
  rendered         \* the five buckets of the last render

passVars == <<now, pc, watchlistResp, watchedResp, detailResps, allShows,
              progressResps, nextResps, enriched>>
cacheVars == <<serverWatchlist, serverWatched, fetchState, fetchResult, mutations>>
authVars == <<dateNow, tokens, user, isLoading, isAuthenticated, persisted, issued,
              calls>>
dateVars == <<airDate, wallClock, daysResult, labelResult>>
viewVars == <<rendered>>

vars == <<now, pc, watchlistResp, watchedResp, detailResps, allShows,
          progressResps, nextResps, enriched, data, queryStatus,
          serverWatchlist, serverWatched, fetchState, fetchResult, mutations,
          dateNow, tokens, user, isLoading, isAuthenticated, persisted, issued,
          calls, airDate, wallClock, daysResult, labelResult, rendered>>

Init ==
  /\ now \in NowSamples
  /\ pc = "start"
  /\ watchlistResp = NotAsked
  /\ watchedResp = NotAsked
  /\ detailResps = <<>>
  /\ allShows = <<>>
  /\ progressResps = <<>>
  /\ nextResps = <<>>
  /\ enriched = <<>>
  /\ data = Undefined
  /\ queryStatus = "pending"
  /\ serverWatchlist = {}
  /\ serverWatched = {}
  /\ fetchState = "idle"
  /\ fetchResult = NotAsked
  /\ mutations = <<>>
  /\ dateNow = 0
  /\ tokens = Null
  /\ user = Null
  /\ isLoading = TRUE
  /\ isAuthenticated = FALSE
  /\ persisted = Null
  /\ issued = 0
  /\ calls = <<>>
  /\ airDate = Undefined
  /\ wallClock = 0
  /\ daysResult = NotAsked
  /\ labelResult = NotAsked
  /\ rendered = NotAsked

\* const token = await getValidToken(); if (!token) return [];
GetToken ==
  /\ pc = "start"
  /\ \E token \in {"token", "none"} :
       IF token = "none"
       THEN /\ pc' = "done"
            /\ data' = List(<<>>)
            /\ queryStatus' = "success"
       ELSE /\ pc' = "lists"
            /\ UNCHANGED <<data, queryStatus>>
  /\ UNCHANGED <<cacheVars, authVars, dateVars, viewVars>>
  /\ UNCHANGED <<now, watchlistResp, watchedResp, detailResps, allShows,
                 progressResps, nextResps, enriched>>

\* await Promise.all([getWatchlist(token), getWatchedShows(token)]): either
\* rejection rejects the query function.
FetchLists ==
  /\ pc = "lists"
  /\ \E wl \in {List(s) : s \in WatchlistResponses} \cup {Rejected},
        wh \in {List(s) : s \in WatchedResponses} \cup {Rejected} :
       /\ watchlistResp' = wl
       /\ watchedResp' = wh
       /\ IF wl = Rejected \/ wh = Rejected
          THEN /\ pc' = "error"
               /\ queryStatus' = "error"
          ELSE /\ pc' = "details"
               /\ UNCHANGED queryStatus
  /\ UNCHANGED <<cacheVars, authVars, dateVars, viewVars>>
  /\ UNCHANGED <<now, detailResps, allShows, progressResps, nextResps,
                 enriched, data>>

\* await Promise.all(watchedOnlyShows.map(getShowDetails ... .catch)), then
\* the merge into allShowsMap and the start of the enrichment map.  A detail
\* promise that rejected would reject the query function.
FetchDetails ==
  /\ pc = "details"
  /\ LET watchlistItems == watchlistResp.items
         watchedItems == watchedResp.items
         wos == watchedOnlyShows(watchedItems, watchlistIds(watchlistItems))
     IN  \E resps \in [DOMAIN wos -> UNION {DetailResponses(i) : i \in ShowIds}] :
           /\ \A k \in DOMAIN wos : resps[k] \in DetailResponses(wos[k].show.ids)
           /\ detailResps' = resps
           /\ IF \E k \in DOMAIN wos : fullDetails(wos, resps)[k] = Rejected
              THEN /\ pc' = "error"
                   /\ queryStatus' = "error"
                   /\ UNCHANGED <<allShows, progressResps, nextResps, enriched>>
              ELSE /\ allShows' =
                        MapValues(allShowsMap(watchlistItems, watchedItems, resps))
                   /\ progressResps' = [k \in DOMAIN allShows' |-> NotAsked]
                   /\ nextResps' = [k \in DOMAIN allShows' |-> NotAsked]
                   /\ enriched' = [k \in DOMAIN allShows' |-> NotAsked]
                   /\ pc' = "enrich"
                   /\ UNCHANGED queryStatus
  /\ UNCHANGED <<cacheVars, authVars, dateVars, viewVars>>
  /\ UNCHANGED <<now, watchlistResp, watchedResp, data>>

\* One callback of the enrichment map runs to its end: the requests it issues
\* are answered and its result settles.
Resolve(k) ==
  /\ pc = "enrich"
  /\ enriched[k] = NotAsked
  /\ \E pr \in IF ResolveEntry(allShows[k], Rejected, Null, now).askedProgress
               THEN ProgressResponses(now) ELSE {NotAsked} :
       \E ne \in IF ResolveEntry(allShows[k], pr, Null, now).askedNext
                 THEN NextEpisodeResponses(now) ELSE {NotAsked} :
         LET r == ResolveEntry(allShows[k], pr, ne, now)
         IN  /\ progressResps' = [progressResps EXCEPT ![k] = pr]
             /\ nextResps' = [nextResps EXCEPT ![k] = ne]
             /\ enriched' = [enriched EXCEPT ![k] = IF r.threw THEN Rejected ELSE r.value]
  /\ UNCHANGED <<cacheVars, authVars, dateVars, viewVars>>
  /\ UNCHANGED <<now, pc, watchlistResp, watchedResp, detailResps, allShows,
                 data, queryStatus>>

\* await Promise.all(...) of the enrichment map settles; return enriched.
Finish ==
  /\ pc = "enrich"
  /\ \A k \in DOMAIN enriched : enriched[k] # NotAsked
  /\ IF \E k \in DOMAIN enriched : enriched[k] = Rejected
     THEN /\ pc' = "error"
          /\ queryStatus' = "error"
          /\ UNCHANGED data
     ELSE /\ pc' = "done"
          /\ queryStatus' = "success"
          /\ data' = List(enriched)
  /\ UNCHANGED <<cacheVars, authVars, dateVars, viewVars>>
  /\ UNCHANGED <<now, watchlistResp, watchedResp, detailResps, allShows,
                 progressResps, nextResps, enriched>>

ResolveSome == \E k \in DOMAIN allShows : Resolve(k)

Next ==
  \/ GetToken
  \/ FetchLists
  \/ FetchDetails
  \/ ResolveSome
  \/ Finish

Spec == Init /\ [][Next]_vars

\* ------------------------------------------------- useCategorizedShows

\* const { data: shows = [] } = useAllShows()
shows == IF data.tag = "list" THEN data.items ELSE <<>>

\* s.progress && s.progress.aired > 0 && s.progress.completed >= s.progress.aired
isFullyWatched(s) ==
  /\ s.progress.tag = "progress"
  /\ s.progress.aired > 0
  /\ s.progress.completed >= s.progress.aired

\* new Date(lastWatchedAt).getTime(), 0 when there is none
WatchedTime(s) == IF IsNum(s.lastWatchedAt) THEN s.lastWatchedAt.v ELSE 0
\* b - a: most recently watched first
WatchingSortKey(s) == -WatchedTime(s)
\* a.daysUntilNext ?? 9999
RunningSortKey(s) == Coalesce(s.daysUntilNext, Num(NoDateSortKey)).v

\* Mutant: only the fully watched shows that ended leave the bucket.
InWatching_OnlyEndedFullyWatched(s) ==
  IF s.category # "watching" THEN FALSE
  ELSE IF s.show.status \in ENDED_STATUSES /\ isFullyWatched(s) THEN FALSE
  ELSE TRUE
InWatching(s) ==
  IF s.category # "watching" THEN FALSE
  ELSE IF s.show.status \in ENDED_STATUSES /\ isFullyWatched(s) THEN FALSE
  ELSE IF isFullyWatched(s) THEN FALSE
  ELSE TRUE
InWatchlist(s) == s.category = "watchlist"
\* Mutant: the shows being watched are left out of the Running bucket.
InRunning_WithoutWatching(s) ==
  \/ s.category = "running"
  \/ (s.category = "watchlist" /\ s.show.status \in RUNNING_STATUSES)
\* Mutant: a show being watched needs a known return date.
InRunning_NeedsDate(s) ==
  \/ s.category = "running"
  \/ (s.category = "watchlist" /\ s.show.status \in RUNNING_STATUSES)
  \/ (s.category = "watching" /\ s.show.status \in RUNNING_STATUSES
        /\ IsNum(s.daysUntilNext))
InRunning(s) ==
  \/ s.category = "running"
  \/ (s.category = "watchlist" /\ s.show.status \in RUNNING_STATUSES)
  \/ (s.category = "watching" /\ s.show.status \in RUNNING_STATUSES)
\* Mutant: only the entries tagged 'waiting' are awaited.
InWaiting_CategoryOnly(s) == s.category = "waiting"
InWaiting(s) ==
  \/ s.category = "waiting"
  \/ (s.category = "watchlist" /\ s.show.status \in WAITING_STATUSES)
\* Mutant: every ended show being watched moves to the Ended bucket.
InEnded_AnyEndedWatching(s) ==
  IF s.category = "ended" THEN TRUE
  ELSE IF s.category = "watchlist" /\ s.show.status \in ENDED_STATUSES THEN TRUE
  ELSE IF s.category = "watching" /\ s.show.status \in ENDED_STATUSES THEN TRUE
  ELSE FALSE
InEnded(s) ==
  IF s.category = "ended" THEN TRUE
  ELSE IF s.category = "watchlist" /\ s.show.status \in ENDED_STATUSES THEN TRUE
  ELSE IF s.category = "watching" /\ s.show.status \in ENDED_STATUSES
       THEN isFullyWatched(s)
  ELSE FALSE

watching == StableSort(FilterSeq(shows, InWatching), WatchingSortKey)
watchlist == FilterSeq(shows, InWatchlist)
running == StableSort(FilterSeq(shows, InRunning), RunningSortKey)
waiting == FilterSeq(shows, InWaiting)
ended == FilterSeq(shows, InEnded)

\* ------------------------------------------------------------- properties

Range(seq) == {seq[k] : k \in DOMAIN seq}
InBucket(bucket, s) == \E k \in DOMAIN bucket : bucket[k] = s

ListsFetched == watchlistResp.tag = "list" /\ watchedResp.tag = "list"
\* The identifiers of the watchlist items of type 'show' with a show payload,
\* and those of the watched-history, read off the two responses.
FetchedWatchlistIds ==
  {i.show.ids : i \in {x \in Range(watchlistResp.items) :
                         x.type = "show" /\ x.show.tag = "show"}}
FetchedWatchedIds == {w.show.ids : w \in Range(watchedResp.items)}
EntriesOf(id) == {k \in DOMAIN shows : shows[k].show.ids = id}

\* C1: after an enrichment pass, every show whose identifier occurs both in
\* the show-filtered watchlist and in the watched-history has an entry, and
\* its category is 'watching', never 'watchlist'.
C1_WatchingTakesPriority ==
  (pc = "done" /\ ListsFetched) =>
    \A id \in FetchedWatchlistIds \cap FetchedWatchedIds :
      /\ EntriesOf(id) # {}
      /\ \A k \in EntriesOf(id) : shows[k].category = "watching"

C1_Witness ==
  /\ pc = "done" /\ ListsFetched
  /\ \E id \in FetchedWatchlistIds \cap FetchedWatchedIds :
       \E k \in EntriesOf(id) : shows[k].category = "watching"

\* C2: the list an enrichment pass returns holds exactly one entry for each
\* distinct identifier in the union of the show-filtered watchlist and the
\* watched-history, and no entry for another identifier, whatever show-detail,
\* progress or next-episode fetches failed.
C2_OneEntryPerShow ==
  (pc = "done" /\ ListsFetched) =>
    /\ {shows[k].show.ids : k \in DOMAIN shows}
         = FetchedWatchlistIds \cup FetchedWatchedIds
    /\ \A id \in FetchedWatchlistIds \cup FetchedWatchedIds :
         Cardinality(EntriesOf(id)) = 1

C2_Witness ==
  /\ pc = "done" /\ ListsFetched
  /\ Cardinality(FetchedWatchlistIds \cup FetchedWatchedIds) = 2
  /\ Len(watchlistResp.items) + Len(watchedResp.items) = 3
  /\ \E k \in DOMAIN progressResps : progressResps[k] = Rejected
  /\ \E k \in DOMAIN nextResps : nextResps[k] = Rejected
  /\ Len(shows) = 2

\* The candidate the resolution of entry k settled on before the guard: the
\* episode the next-episode request answered when it carries an air date,
\* else the one the progress response names.
ResolvedWatching(k) ==
  /\ enriched[k] # NotAsked
  /\ allShows[k].category = "watching"
  /\ progressResps[k].tag = "progress"
ResolvedCandidate(k) ==
  IF nextResps[k].tag = "episode" /\ nextResps[k].first_aired.tag = "num"
  THEN nextResps[k]
  ELSE progressResps[k].next_episode
CandidateAiredDaysAgo(k) ==
  /\ ResolvedCandidate(k).tag = "episode"
  /\ ResolvedCandidate(k).first_aired.tag = "num"
  /\ DifferenceInDays(ResolvedCandidate(k).first_aired.v, now) < 0
CaughtUpAt(k) ==
  /\ progressResps[k].aired > 0
  /\ progressResps[k].completed >= progressResps[k].aired

\* C3: a 'watching' entry whose resolution completed without error, whose
\* progress has aired > 0 and completed >= aired and whose resolved days-until
\* value is negative, is returned with daysUntilNext = null and
\* nextEpisode = null.
C3_StalePlaceholderGuard ==
  \A k \in DOMAIN enriched :
    (ResolvedWatching(k) /\ CaughtUpAt(k) /\ CandidateAiredDaysAgo(k)) =>
      /\ enriched[k].daysUntilNext = Null
      /\ enriched[k].nextEpisode = Null
      /\ (pc = "done" => shows[k].daysUntilNext = Null /\ shows[k].nextEpisode = Null)

C3_Witness ==
  /\ pc = "done"
  /\ \E k \in DOMAIN enriched :
       /\ ResolvedWatching(k) /\ CaughtUpAt(k) /\ CandidateAiredDaysAgo(k)
       /\ nextResps[k].tag = "episode"
       /\ shows[k].nextEpisode = Null

RunningEntry(k) == allShows[k].show.status \in {"returning series", "continuing"}
ProgressCandidate(k) == progressResps[k].next_episode
Dated(ep) == ep.tag = "episode" /\ ep.first_aired.tag = "num"
GuardDiscards(k) == CaughtUpAt(k) /\ CandidateAiredDaysAgo(k)

\* C4: for a 'watching' entry with status 'returning series' or 'continuing'
\* whose progress-reported next episode is absent, has no air date or has an
\* air date in the past, the pass issues the true-next-episode fetch; when the
\* fetch answers an episode with an air date, that episode is the entry's
\* nextEpisode and daysUntilNext is computed from its air date (10 for ten
\* days ahead); when it answers nothing or an episode without air date, the
\* progress-reported candidate is kept.  (The values are those the resolution
\* settles on before the stale-placeholder guard of C3 is applied.)
C4_FutureEpisodeFetchedWhenPast ==
  \A k \in DOMAIN enriched :
    (ResolvedWatching(k) /\ RunningEntry(k)) =>
      LET cand == ProgressCandidate(k)
          fetched == nextResps[k]
      IN  (~Dated(cand) \/ cand.first_aired.v < now) =>
            /\ fetched # NotAsked
            /\ ~GuardDiscards(k) =>
                 IF Dated(fetched)
                 THEN /\ enriched[k].nextEpisode = fetched
                      /\ enriched[k].daysUntilNext =
                           Num(DifferenceInDays(fetched.first_aired.v, now))
                      /\ (fetched.first_aired.v = now + 10 * HoursPerDay
                            => enriched[k].daysUntilNext = Num(10))
                 ELSE enriched[k].nextEpisode = cand

\* The part of C4 the code does implement: the same statement for a
\* progress-reported episode that aired at least one full day ago.
C4_FutureEpisodeFetchedWhenDaysPast ==
  \A k \in DOMAIN enriched :
    (ResolvedWatching(k) /\ RunningEntry(k)) =>
      LET cand == ProgressCandidate(k)
          fetched == nextResps[k]
      IN  /\ (fetched # NotAsked) =
               (~Dated(cand) \/ DifferenceInDays(cand.first_aired.v, now) < 0)
          /\ (fetched # NotAsked /\ ~GuardDiscards(k)) =>
               IF Dated(fetched)
               THEN /\ enriched[k].nextEpisode = fetched
                    /\ enriched[k].daysUntilNext =
                         Num(DifferenceInDays(fetched.first_aired.v, now))
                    /\ (fetched.first_aired.v = now + 10 * HoursPerDay
                          => enriched[k].daysUntilNext = Num(10))
               ELSE enriched[k].nextEpisode = cand

C4_DaysPast_Witness ==
  /\ pc = "done"
  /\ \E k \in DOMAIN enriched :
       /\ ResolvedWatching(k) /\ RunningEntry(k)
       /\ Dated(ProgressCandidate(k))
       /\ Dated(nextResps[k])
       /\ shows[k].nextEpisode = nextResps[k]
       /\ shows[k].daysUntilNext = Num(10)

Settled(k) == enriched[k] # NotAsked

\* C5: when the resolution of one entry fails (its progress fetch rejects),
\* the entry is still returned in its pre-enrichment form (original category,
\* no progress, no nextEpisode, no daysUntilNext), the other entries are
\* enriched from their own responses, and the pass does not fail.
C5_ResolutionFailureIsolated ==
  /\ \A k \in DOMAIN enriched :
       Settled(k) =>
         /\ enriched[k] # Rejected
         /\ progressResps[k] = Rejected =>
              /\ enriched[k] = allShows[k]
              /\ enriched[k].progress = Undefined
              /\ enriched[k].nextEpisode = Undefined
              /\ enriched[k].daysUntilNext = Undefined
         /\ progressResps[k] # Rejected =>
              /\ enriched[k].daysUntilNext # Undefined
              /\ enriched[k].category = allShows[k].category
              /\ allShows[k].category = "watching" =>
                   enriched[k].progress = progressResps[k]
              /\ (allShows[k].category = "watchlist" /\ nextResps[k] # NotAsked) =>
                   enriched[k].nextEpisode =
                     (IF nextResps[k] = Rejected THEN Null ELSE nextResps[k])
  /\ (\E k \in DOMAIN progressResps : progressResps[k] = Rejected) => pc # "error"
  /\ (pc = "done" /\ ListsFetched) => shows = enriched

C5_Witness ==
  /\ pc = "done"
  /\ \E k, j \in DOMAIN enriched :
       /\ k # j
       /\ progressResps[k] = Rejected
       /\ shows[k] = allShows[k]
       /\ Dated(nextResps[j])
       /\ shows[j].nextEpisode = nextResps[j]
       /\ shows[j].daysUntilNext.tag = "num"

\* The watched-history items whose show is not on the watchlist, in order:
\* the shows a detail request is issued for.
DetailRequested ==
  LET Unlisted(w) == w.show.ids \notin FetchedWatchlistIds
  IN  FilterSeq(watchedResp.items, Unlisted)
FirstRequest(id) ==
  CHOOSE k \in DOMAIN DetailRequested :
    /\ DetailRequested[k].show.ids = id
    /\ \A j \in 1..(k - 1) : DetailRequested[j].show.ids # id

\* C6: an enrichment pass ends in an error exactly when the watchlist fetch or
\* the watched-history fetch fails; when a show's detail fetch (the first one,
\* should the listing repeat the show) fails, the pass uses the abbreviated
\* watched-history record of that show; no failure of a show-detail, progress
\* or next-episode fetch makes the pass fail or drop a show.
C6_OnlyListFetchesFail ==
  /\ (pc = "error") = (watchlistResp = Rejected \/ watchedResp = Rejected)
  /\ (pc \in {"enrich", "done"} /\ ListsFetched) =>
       /\ {allShows[k].show.ids : k \in DOMAIN allShows}
            = FetchedWatchlistIds \cup FetchedWatchedIds
       /\ \A id \in FetchedWatchedIds \ FetchedWatchlistIds :
            \A k \in DOMAIN allShows :
              allShows[k].show.ids = id =>
                allShows[k].show =
                  (IF detailResps[FirstRequest(id)] = Rejected
                   THEN DetailRequested[FirstRequest(id)].show
                   ELSE detailResps[FirstRequest(id)])
  /\ (pc = "done" /\ ListsFetched) =>
       /\ Len(shows) = Len(allShows)
       /\ \A k \in DOMAIN shows : shows[k].show = allShows[k].show

C6_Witness ==
  /\ pc = "done" /\ ListsFetched
  /\ \E k \in DOMAIN detailResps : detailResps[k] = Rejected
  /\ \E k \in DOMAIN shows :
       /\ shows[k].show = AbbreviatedShow(shows[k].show.ids)
       /\ shows[k].show.ids \notin FetchedWatchlistIds
       /\ progressResps[k] = Rejected
  /\ \E k \in DOMAIN nextResps : nextResps[k] = Rejected

\* Fully watched: progress is present with aired > 0 and completed >= aired.
FullyWatched(s) ==
  s.progress.tag = "progress" /\ s.progress.aired > 0
    /\ s.progress.completed >= s.progress.aired
StatusRunning(s) == s.show.status \in {"returning series", "continuing"}
StatusEnded(s) == s.show.status \in {"ended", "canceled"}
NoRepeats(bucket) == \A i, j \in DOMAIN bucket : bucket[i] = bucket[j] => i = j

\* C7: the Watching bucket contains exactly the entries with category
\* 'watching' that are not fully watched; a 'watching' entry without progress
\* is not fully watched and is in the bucket.
C7_WatchingBucket ==
  /\ \A k \in DOMAIN shows :
       InBucket(watching, shows[k]) =
         (shows[k].category = "watching" /\ ~FullyWatched(shows[k]))
  /\ \A k \in DOMAIN shows :
       (shows[k].category = "watching" /\ shows[k].progress = Undefined)
         => InBucket(watching, shows[k])
  /\ Range(watching) \subseteq Range(shows)
  /\ NoRepeats(watching)

C7_Witness ==
  /\ pc = "done"
  /\ \E k \in DOMAIN shows :
       /\ shows[k].category = "watching"
       /\ shows[k].progress = Undefined
       /\ InBucket(watching, shows[k])

\* C8 as claimed: a 'watching' entry that is not fully watched is in the
\* Watching bucket and in no other bucket; a fully watched one whose status is
\* 'ended' or 'canceled' is not in the Watching bucket and is in the Ended
\* bucket.
C8_WatchingOnlyInWatching ==
  \A k \in DOMAIN shows :
    shows[k].category = "watching" =>
      /\ ~FullyWatched(shows[k]) =>
           /\ InBucket(watching, shows[k])
           /\ ~InBucket(watchlist, shows[k])
           /\ ~InBucket(running, shows[k])
           /\ ~InBucket(waiting, shows[k])
           /\ ~InBucket(ended, shows[k])
      /\ (FullyWatched(shows[k]) /\ StatusEnded(shows[k])) =>
           /\ ~InBucket(watching, shows[k])
           /\ InBucket(ended, shows[k])

\* C8 amended: a 'watching' entry that is not fully watched is in the Watching
\* bucket, in none of the Watchlist, Waiting and Ended buckets, and in the
\* Running bucket exactly when its status is 'returning series' or
\* 'continuing'; a fully watched one whose status is 'ended' or 'canceled' is
\* not in the Watching bucket and is in the Ended bucket.
C8_WatchingAlsoInRunning ==
  \A k \in DOMAIN shows :
    shows[k].category = "watching" =>
      /\ ~FullyWatched(shows[k]) =>
           /\ InBucket(watching, shows[k])
           /\ ~InBucket(watchlist, shows[k])
           /\ InBucket(running, shows[k]) = StatusRunning(shows[k])
           /\ ~InBucket(waiting, shows[k])
           /\ ~InBucket(ended, shows[k])
      /\ (FullyWatched(shows[k]) /\ StatusEnded(shows[k])) =>
           /\ ~InBucket(watching, shows[k])
           /\ InBucket(ended, shows[k])

C8_Witness ==
  /\ pc = "done"
  /\ \E k \in DOMAIN shows :
       /\ shows[k].category = "watching"
       /\ shows[k].progress.tag = "progress"
       /\ ~FullyWatched(shows[k])
       /\ StatusRunning(shows[k])
       /\ InBucket(watching, shows[k])
       /\ InBucket(running, shows[k])

\* C9: the Running bucket contains exactly the entries whose category is
\* 'running', or whose category is 'watchlist' or 'watching' and whose status
\* is 'returning series' or 'continuing', whatever their watch progress and
\* whether or not a next-episode date is known.
C9_RunningBucket ==
  /\ \A k \in DOMAIN shows :
       InBucket(running, shows[k]) =
         \/ shows[k].category = "running"
         \/ /\ shows[k].category \in {"watchlist", "watching"}
            /\ StatusRunning(shows[k])
  /\ Range(running) \subseteq Range(shows)
  /\ NoRepeats(running)

C9_Witness ==
  /\ pc = "done"
  /\ \E k \in DOMAIN shows :
       /\ shows[k].category = "watching"
       /\ FullyWatched(shows[k])
       /\ shows[k].daysUntilNext = Null
       /\ InBucket(running, shows[k])
  /\ \E k \in DOMAIN shows :
       /\ shows[k].category = "watchlist"
       /\ ~StatusRunning(shows[k])
       /\ ~InBucket(running, shows[k])

WatchedOnly(s) ==
  /\ ListsFetched
  /\ s.show.ids \in FetchedWatchedIds \ FetchedWatchlistIds

\* C10: a show that is only in the watched-history, has status 'ended' or
\* 'canceled' and is fully watched is in the Ended bucket and in none of the
\* Watching, Watchlist, Running and Waiting buckets, with category still
\* 'watching'; while it is only partially watched it is in the Watching bucket
\* and not in the Ended bucket.
C10_FinishedShowInEnded ==
  \A k \in DOMAIN shows :
    (WatchedOnly(shows[k]) /\ StatusEnded(shows[k])) =>
      /\ FullyWatched(shows[k]) =>
           /\ InBucket(ended, shows[k])
           /\ ~InBucket(watching, shows[k])
           /\ ~InBucket(watchlist, shows[k])
           /\ ~InBucket(running, shows[k])
           /\ ~InBucket(waiting, shows[k])
           /\ shows[k].category = "watching"
      /\ (shows[k].progress.tag = "progress" /\ ~FullyWatched(shows[k])) =>
           /\ InBucket(watching, shows[k])
           /\ ~InBucket(ended, shows[k])

C10_Witness ==
  /\ pc = "done"
  /\ \E k \in DOMAIN shows :
       /\ WatchedOnly(shows[k]) /\ StatusEnded(shows[k])
       /\ shows[k].progress.tag = "progress"
       /\ shows[k].progress.aired = 2 /\ shows[k].progress.completed = 2
       /\ shows[k].category = "watching"
       /\ InBucket(ended, shows[k])
       /\ ~InBucket(watching, shows[k])

WatchlistOnly(s) ==
  /\ ListsFetched
  /\ s.show.ids \in FetchedWatchlistIds \ FetchedWatchedIds
StatusWaiting(s) ==
  s.show.status \in {"planned", "in production", "upcoming", "pilot"}

\* C11: a show that is only on the watchlist and whose status is 'planned',
\* 'in production', 'upcoming' or 'pilot' has an entry with category
\* 'watchlist' after the pass; the entry is in the Waiting bucket and in none
\* of the Running, Ended and Watching buckets.
C11_WaitingBucket ==
  (pc = "done" /\ ListsFetched) =>
    /\ \A id \in FetchedWatchlistIds \ FetchedWatchedIds : EntriesOf(id) # {}
    /\ \A k \in DOMAIN shows :
         (WatchlistOnly(shows[k]) /\ StatusWaiting(shows[k])) =>
           /\ shows[k].category = "watchlist"
           /\ InBucket(waiting, shows[k])
           /\ ~InBucket(running, shows[k])
           /\ ~InBucket(ended, shows[k])
           /\ ~InBucket(watching, shows[k])

C11_Witness ==
  /\ pc = "done"
  /\ watchedResp = List(<<>>)
  /\ Len(watchlistResp.items) = 1
  /\ \E k \in DOMAIN shows :
       /\ WatchlistOnly(shows[k])
       /\ shows[k].show.status = "planned"
       /\ shows[k].category = "watchlist"
       /\ InBucket(waiting, shows[k])

\* C19: for every 'watching' entry with status 'returning series' or
\* 'continuing' whose progress fetch answered, the pass issues the
\* true-next-episode fetch, whatever the progress counts and whatever next
\* episode the progress response reports.
C19_NextEpisodeAlwaysFetched ==
  \A k \in DOMAIN enriched :
    (ResolvedWatching(k) /\ RunningEntry(k)) => nextResps[k] # NotAsked

\* C20: every entry with category 'watching' that is fully watched is absent
\* from the Watching bucket and present in the Ended bucket or the Running
\* bucket, whatever its show status.
C20_FullyWatchedSurfaces ==
  \A k \in DOMAIN shows :
    (shows[k].category = "watching" /\ FullyWatched(shows[k])) =>
      /\ ~InBucket(watching, shows[k])
      /\ InBucket(ended, shows[k]) \/ InBucket(running, shows[k])

\* =================================================== the allShows cache
\* The cached value of the allShows query (data), the query function in
\* flight, and the mutations that write to the cache or invalidate it.

\* The number of mutations started.
MaxMutations == 2

Mutations == 1..MaxMutations
MutationKinds ==
  {"addToWatchlist", "removeFromWatchlist", "markEpisodeWatched",
   "unmarkEpisodeWatched", "markSeasonWatched", "unmarkSeasonWatched"}

\* What the remote service answers for the shows of the account: a listed
\* show is 'planned', a watched show has 'ended' and is partly watched.
ListedShow(id) == FullShow(id, "planned")
WatchedDetails(id) == FullShow(id, "ended")
WatchedProgress == Progress(2, 1, Null)

\* The identifiers of a set in ascending order.
IdSeq(set) ==
  LET In(i) == i \in set
  IN  FilterSeq([i \in 1..MaxShows |-> i], In)

\* The query function of useAllShows against the remote account: the lists,
\* the merge and the per-show resolution.
queryFn(wl, wd, clock) ==
  LET wlIdSeq == IdSeq(wl)
      wdIdSeq == IdSeq(wd)
      watchlistItems ==
        [k \in DOMAIN wlIdSeq |-> WatchlistItem(wlIdSeq[k], "show", ListedShow(wlIdSeq[k]))]
      watchedItems ==
        [k \in DOMAIN wdIdSeq |->
           WatchedItem(wdIdSeq[k], CHOOSE lw \in LastWatchedSamples : TRUE)]
      wos == watchedOnlyShows(watchedItems, watchlistIds(watchlistItems))
      details == [k \in DOMAIN wos |-> WatchedDetails(wos[k].show.ids)]
      entries == MapValues(allShowsMap(watchlistItems, watchedItems, details))
  IN  List([k \in DOMAIN entries |->
              ResolveEntry(entries[k], WatchedProgress, Null, clock).value])

\* prev.find((s) => s.show.ids.trakt === traktId)
Cached(list, traktId) ==
  \E k \in DOMAIN list.items : list.items[k].show.ids = traktId

\* The optimistic EnrichedShow of onMutate and onSuccess.
OptimisticEntry(show) ==
  Entry(show, "watchlist", Undefined, Null, Undefined, Null, Null)

\* Mutant: onMutate takes the snapshot and leaves the cache alone.
OptimisticInsert_Skipped(prev, traktId, show) == prev
\* onMutate of useAddToWatchlist: the value of the cache after it.
OptimisticInsert(prev, traktId, show) ==
  IF show # Undefined /\ prev.tag = "list" /\ ~Cached(prev, traktId)
  THEN List(Append(prev.items, OptimisticEntry(show)))
  ELSE prev

\* onError of useAddToWatchlist: the value of the cache after it.
RollBack(current, prev) == IF prev # Undefined THEN prev ELSE current

\* Mutant: onSuccess appends the show without looking for it in the list.
InsertOnSuccess_AlwaysAppend(old, traktId, show) ==
  IF show = Undefined THEN old
  ELSE IF old.tag # "list" THEN old
  ELSE List(Append(old.items, OptimisticEntry(show)))
\* onSuccess of useAddToWatchlist: the setQueryData updater.
InsertOnSuccess(old, traktId, show) ==
  IF show = Undefined THEN old
  ELSE IF old.tag # "list" THEN old
  ELSE IF Cached(old, traktId) THEN old
  ELSE List(Append(old.items, OptimisticEntry(show)))

\* Mutant: a successful mutation leaves the query as it is.
InvalidateQueries_Noop(state) == state
\* queryClient.invalidateQueries({ queryKey: queryKeys.allShows }): the query
\* function is started anew, a run in flight is cancelled.
InvalidateQueries(state) == "started"

\* The effect of the remote call of a mutation on the account.
RemoteWatchlist(kind, traktId, wl) ==
  IF kind = "addToWatchlist" THEN wl \cup {traktId}
  ELSE IF kind = "removeFromWatchlist" THEN wl \ {traktId}
  ELSE wl
RemoteWatched(kind, traktId, wd) ==
  IF kind \in {"markEpisodeWatched", "markSeasonWatched"} THEN wd \cup {traktId}
  ELSE IF kind \in {"unmarkEpisodeWatched", "unmarkSeasonWatched"} THEN wd \ {traktId}
  ELSE wd

\* A mutation is in flight from mutate() until its onError or onSuccess.
InFlight(mu) == mu.state \in {"pending", "resolved", "rejected"}

\* overlaps and refetched record the history of the mutation: whether another
\* mutation was in flight when it started, whether a refetch wrote the cache
\* while it was in flight.
IdleMutation ==
  [state |-> "idle", kind |-> "none", traktId |-> 0, show |-> Undefined,
   prev |-> Undefined, refetched |-> FALSE, overlaps |-> FALSE]

CacheInit ==
  /\ now \in NowSamples
  /\ pc = "start"
  /\ watchlistResp = NotAsked
  /\ watchedResp = NotAsked
  /\ detailResps = <<>>
  /\ allShows = <<>>
  /\ progressResps = <<>>
  /\ nextResps = <<>>
  /\ enriched = <<>>
  /\ data = Undefined
  /\ queryStatus = "pending"
  /\ serverWatchlist \in SUBSET ShowIds
  /\ serverWatched = {}
  /\ fetchState = "started"
  /\ fetchResult = NotAsked
  /\ mutations = [m \in Mutations |-> IdleMutation]
  /\ dateNow = 0
  /\ tokens = Null
  /\ user = Null
  /\ isLoading = TRUE
  /\ isAuthenticated = FALSE
  /\ persisted = Null
  /\ issued = 0
  /\ calls = <<>>
  /\ airDate = Undefined
  /\ wallClock = 0
  /\ daysResult = NotAsked
  /\ labelResult = NotAsked
  /\ rendered = NotAsked

\* mutate(variables): onMutate runs first (useAddToWatchlist alone has one),
\* then the mutation function is pending.
Mutate(m) ==
  /\ mutations[m].state = "idle"
  /\ m > 1 => mutations[m - 1].state # "idle"
  /\ \E kind \in MutationKinds, traktId \in ShowIds, withShow \in BOOLEAN :
       LET show == IF kind = "addToWatchlist" /\ withShow
                   THEN ListedShow(traktId) ELSE Undefined
       IN  /\ (kind # "addToWatchlist") => ~withShow
           /\ mutations' =
                [mutations EXCEPT ![m] =
                   [state |-> "pending", kind |-> kind, traktId |-> traktId,
                    show |-> show,
                    prev |-> IF kind = "addToWatchlist" THEN data ELSE Undefined,
                    refetched |-> FALSE,
                    overlaps |-> \E n \in Mutations : InFlight(mutations[n])]]
           /\ data' = IF kind = "addToWatchlist"
                      THEN OptimisticInsert(data, traktId, show)
                      ELSE data
  /\ UNCHANGED <<queryStatus, serverWatchlist, serverWatched, fetchState,
                 fetchResult>>
  /\ UNCHANGED <<passVars, authVars, dateVars, viewVars>>

\* The mutation function: getValidToken, then the remote call, which changes
\* the account when it succeeds.
mutationFn(m) ==
  /\ mutations[m].state = "pending"
  /\ \E token \in {"token", "none"}, remoteOk \in BOOLEAN :
       IF token = "token" /\ remoteOk
       THEN /\ mutations' = [mutations EXCEPT ![m].state = "resolved"]
            /\ serverWatchlist' =
                 RemoteWatchlist(mutations[m].kind, mutations[m].traktId, serverWatchlist)
            /\ serverWatched' =
                 RemoteWatched(mutations[m].kind, mutations[m].traktId, serverWatched)
       ELSE /\ mutations' = [mutations EXCEPT ![m].state = "rejected"]
            /\ UNCHANGED <<serverWatchlist, serverWatched>>
  /\ UNCHANGED <<data, queryStatus, fetchState, fetchResult>>
  /\ UNCHANGED <<passVars, authVars, dateVars, viewVars>>

\* onError: useAddToWatchlist rolls back to its snapshot, the other mutations
\* have no handler.
onError(m) ==
  /\ mutations[m].state = "rejected"
  /\ mutations' = [mutations EXCEPT ![m].state = "error"]
  /\ data' = IF mutations[m].kind = "addToWatchlist"
             THEN RollBack(data, mutations[m].prev)
             ELSE data
  /\ UNCHANGED <<queryStatus, serverWatchlist, serverWatched, fetchState,
                 fetchResult>>
  /\ UNCHANGED <<passVars, authVars, dateVars, viewVars>>

\* onSuccess: useAddToWatchlist inserts the show if it is missing; every
\* mutation invalidates the allShows query.
onSuccess(m) ==
  /\ mutations[m].state = "resolved"
  /\ mutations' = [mutations EXCEPT ![m].state = "success"]
  /\ data' = IF mutations[m].kind = "addToWatchlist"
             THEN InsertOnSuccess(data, mutations[m].traktId, mutations[m].show)
             ELSE data
  /\ fetchState' = InvalidateQueries(fetchState)
  /\ fetchResult' = IF fetchState' = fetchState THEN fetchResult ELSE NotAsked
  /\ UNCHANGED <<queryStatus, serverWatchlist, serverWatched>>
  /\ UNCHANGED <<passVars, authVars, dateVars, viewVars>>

\* refetch(): the screen asks for the list again (pull to refresh, focus).
Refetch ==
  /\ fetchState # "started"
  /\ fetchState' = "started"
  /\ fetchResult' = NotAsked
  /\ UNCHANGED <<data, queryStatus, serverWatchlist, serverWatched, mutations>>
  /\ UNCHANGED <<passVars, authVars, dateVars, viewVars>>

\* The query function runs against the account: no token gives [], a failed
\* list fetch rejects, else the enriched list of what the account holds now.
RunQuery ==
  /\ fetchState = "started"
  /\ fetchState' = "read"
  /\ fetchResult' \in {List(<<>>), Rejected,
                       queryFn(serverWatchlist, serverWatched, now)}
  /\ UNCHANGED <<data, queryStatus, serverWatchlist, serverWatched, mutations>>
  /\ UNCHANGED <<passVars, authVars, dateVars, viewVars>>

\* The query function settles and its result is written to the cache.
ApplyResult ==
  /\ fetchState = "read"
  /\ fetchState' = "idle"
  /\ fetchResult' = NotAsked
  /\ IF fetchResult = Rejected
     THEN /\ queryStatus' = "error"
          /\ UNCHANGED <<data, mutations>>
     ELSE /\ queryStatus' = "success"
          /\ data' = fetchResult
          /\ mutations' =
               [m \in Mutations |->
                  IF InFlight(mutations[m])
                  THEN [mutations[m] EXCEPT !.refetched = TRUE]
                  ELSE mutations[m]]
  /\ UNCHANGED <<serverWatchlist, serverWatched>>
  /\ UNCHANGED <<passVars, authVars, dateVars, viewVars>>

MutateSome == \E m \in Mutations : Mutate(m)
mutationFnSome == \E m \in Mutations : mutationFn(m)
onErrorSome == \E m \in Mutations : onError(m)
onSuccessSome == \E m \in Mutations : onSuccess(m)

CacheNext ==
  \/ MutateSome
  \/ mutationFnSome
  \/ onErrorSome
  \/ onSuccessSome
  \/ Refetch
  \/ RunQuery
  \/ ApplyResult

CacheSpec == CacheInit /\ [][CacheNext]_vars

\* Steps of mutation m, read off its position before and after.
Starts(m) == mutations[m].state = "idle" /\ mutations'[m].state # "idle"
Fails(m) == mutations[m].state = "rejected" /\ mutations'[m].state = "error"
Succeeds(m) == mutations[m].state = "resolved" /\ mutations'[m].state = "success"
IsAdd(mu) == mu.kind = "addToWatchlist"
InCachedList(list, id) ==
  list.tag = "list" /\ \E k \in DOMAIN list.items : list.items[k].show.ids = id

\* C12: when an add-to-watchlist mutation with a show payload starts while
\* the cache holds a list without the show, the cached list is at once the
\* old list followed by a 'watchlist' entry for the show (no progress, no next
\* episode, no countdown), the remote call being still pending; when the
\* remote call of such a mutation rejects, the cached list is the snapshot
\* taken when the mutation started.
C12_OptimisticInsertAndRollback ==
  [][\A m \in Mutations :
       /\ (Starts(m) /\ IsAdd(mutations'[m]) /\ mutations'[m].show # Undefined
             /\ data.tag = "list"
             /\ ~InCachedList(data, mutations'[m].traktId)) =>
            /\ mutations'[m].state = "pending"
            /\ mutations'[m].prev = data
            /\ data'.tag = "list"
            /\ Len(data'.items) = Len(data.items) + 1
            /\ SubSeq(data'.items, 1, Len(data.items)) = data.items
            /\ LET e == data'.items[Len(data'.items)]
               IN  /\ e.show = mutations'[m].show
                   /\ e.show.ids = mutations'[m].traktId
                   /\ e.category = "watchlist"
                   /\ e.nextEpisode = Null
                   /\ e.daysUntilNext = Null
       /\ (Fails(m) /\ IsAdd(mutations[m]) /\ mutations[m].show # Undefined
             /\ mutations[m].prev.tag = "list"
             /\ ~InCachedList(mutations[m].prev, mutations[m].traktId)) =>
            /\ data' = mutations[m].prev
            /\ Len(data'.items) = Len(mutations[m].prev.items)
            /\ ~InCachedList(data', mutations[m].traktId)
    ]_vars

C12_Witness ==
  \E m \in Mutations :
    /\ mutations[m].state = "error"
    /\ IsAdd(mutations[m])
    /\ mutations[m].show # Undefined
    /\ mutations[m].prev.tag = "list"
    /\ Len(mutations[m].prev.items) = 1
    /\ ~InCachedList(mutations[m].prev, mutations[m].traktId)
    /\ ~mutations[m].refetched
    /\ data = mutations[m].prev

C14_RollbackKeepsNewerRefetch ==
  [][\A m \in Mutations :
       (Fails(m) /\ IsAdd(mutations[m]) /\ mutations[m].refetched) => data' = data
    ]_vars

\* ======================================================= the auth store
\* The zustand store of src/store/authStore, the credential storage of
\* src/services/storage and the store operations, which give way to one
\* another at every await.  The storage calls themselves do not fail.

\* The number of store operations that can be in flight together.
MaxCalls == 2
\* The number of token pairs the service issues.
MaxPairs == 2

MsPerSecond == 1000
\* Refresh 5 minutes early
RefreshMarginMs == 5 * 60 * 1000
\* expires_in of the pairs the service issues, in seconds.
TokenLifetime == 600

Calls == 1..MaxCalls

\* A TraktAuthTokens: created_at and expires_in are in seconds.
Pair(n, createdAt) ==
  [tag |-> "pair", access_token |-> n, refresh_token |-> n,
   created_at |-> createdAt, expires_in |-> TokenLifetime]

\* Mutant: the pair counts as expired only once its lifetime is over.
isTokenExpired_NoMargin(t, nowMs) ==
  nowMs > (t.created_at + t.expires_in) * MsPerSecond
\* isTokenExpired: Date.now() > expiresAt - 5 * 60 * 1000
isTokenExpired(t, nowMs) ==
  LET expiresAt == (t.created_at + t.expires_in) * MsPerSecond
  IN  nowMs > expiresAt - RefreshMarginMs

\* Clock readings: the instant a pair issued at 0 starts to count as
\* expired, the millisecond before and after, and a later one.
RefreshDue == TokenLifetime * MsPerSecond - RefreshMarginMs
ClockSamples == {0, RefreshDue, RefreshDue + 1, 2 * RefreshDue + 1}

Resolved == [tag |-> "resolved"]
Profile == [tag |-> "user"]

IdleCall ==
  [op |-> "none", pc |-> "idle", local |-> Null, result |-> Undefined,
   held |-> Null, calledAt |-> 0, trail |-> <<>>]

\* A call that starts operation op at position at.
NewCall(op, at) ==
  [op |-> op, pc |-> at, local |-> Null, result |-> Undefined,
   held |-> tokens, calledAt |-> dateNow, trail |-> <<>>]

\* A call moves on to position at and notes the step it took.
Moved(call, at, step) == [call EXCEPT !.pc = at, !.trail = Append(@, step)]
\* A call settles with a result.
Settled_(call, result, step) ==
  [call EXCEPT !.pc = "done", !.result = result, !.trail = Append(@, step)]

CanStart(c) ==
  /\ calls[c].pc \in {"idle", "done"}
  /\ c > 1 => calls[c - 1].pc # "idle"

\* Mutant: a failed refresh is tried again.
AfterRefreshFailure_Retry(op) == "refresh"
\* catch of getValidToken and of initialize: clear the persisted credentials.
AfterRefreshFailure(op) == "clear"

\* Mutant: a failed revocation ends the logout.
AfterRevoke_StopOnFailure(ok) == IF ok THEN "clear" ELSE "done"
\* try { await revokeToken(...) } catch {}: go on to clearTokens either way.
AfterRevoke(ok) == "clear"

\* Mutant: the pair is not saved before the profile is fetched.
AfterExchange_SetFirst(ok) == IF ok THEN "getMe" ELSE "done"
\* handleCallback: after the exchange comes saveTokens; a failure leaves.
AfterExchange(ok) == IF ok THEN "save" ELSE "done"

\* Mutant: handleCallback and initialize without their finally block.
FinallyLoading_Missing(current) == current
\* finally { set({ isLoading: false }) }: isLoading after the block, given
\* its value before.
FinallyLoading(current) == FALSE

AuthInit ==
  /\ now \in NowSamples
  /\ pc = "start"
  /\ watchlistResp = NotAsked
  /\ watchedResp = NotAsked
  /\ detailResps = <<>>
  /\ allShows = <<>>
  /\ progressResps = <<>>
  /\ nextResps = <<>>
  /\ enriched = <<>>
  /\ data = Undefined
  /\ queryStatus = "pending"
  /\ serverWatchlist = {}
  /\ serverWatched = {}
  /\ fetchState = "idle"
  /\ fetchResult = NotAsked
  /\ mutations = <<>>
  /\ dateNow = 0
  /\ tokens = Null
  /\ user = Null
  /\ isLoading = TRUE
  /\ isAuthenticated = FALSE
  /\ \E stored \in BOOLEAN :
       /\ persisted = IF stored THEN Pair(1, 0) ELSE Null
       /\ issued = IF stored THEN 1 ELSE 0
  /\ calls = [c \in Calls |-> IdleCall]
  /\ airDate = Undefined
  /\ wallClock = 0
  /\ daysResult = NotAsked
  /\ labelResult = NotAsked
  /\ rendered = NotAsked

AuthOthersUnchanged ==
  UNCHANGED <<passVars, cacheVars, data, queryStatus, dateVars, viewVars>>

\* Time passes.
Tick ==
  /\ \E t \in ClockSamples : t > dateNow /\ dateNow' = t
  /\ UNCHANGED <<tokens, user, isLoading, isAuthenticated, persisted, issued, calls>>
  /\ AuthOthersUnchanged

\* getValidToken, up to its first await: null without a pair, the access
\* token of a pair that is not expired, else the refresh request is sent.
getValidToken(c) ==
  /\ CanStart(c)
  /\ calls' = [calls EXCEPT ![c] =
       IF tokens = Null
       THEN Settled_(NewCall("getValidToken", "start"), Null, "none")
       ELSE IF isTokenExpired(tokens, dateNow)
       THEN Moved(NewCall("getValidToken", "start"), "refresh", "expired")
       ELSE Settled_(NewCall("getValidToken", "start"),
                     Num(tokens.access_token), "valid")]
  /\ UNCHANGED <<dateNow, tokens, user, isLoading, isAuthenticated, persisted, issued>>
  /\ AuthOthersUnchanged

\* refreshAccessToken answers a new pair or fails (getValidToken, initialize).
RefreshResponse(c) ==
  /\ calls[c].pc = "refresh"
  /\ \E ok \in BOOLEAN :
       IF ok
       THEN /\ issued < MaxPairs
            /\ issued' = issued + 1
            /\ calls' = [calls EXCEPT ![c] =
                 [Moved(@, "save", "refreshed") EXCEPT
                    !.local = Pair(issued + 1, dateNow \div MsPerSecond)]]
       ELSE /\ UNCHANGED issued
            /\ calls' = [calls EXCEPT ![c] =
                 Moved(@, AfterRefreshFailure(@.op), "refreshFailed")]
  /\ UNCHANGED <<dateNow, tokens, user, isLoading, isAuthenticated, persisted>>
  /\ AuthOthersUnchanged

\* await saveTokens(tokens)
SaveTokens(c) ==
  /\ calls[c].pc = "save"
  /\ persisted' = calls[c].local
  /\ calls' = [calls EXCEPT ![c] =
       Moved(@, IF @.op = "getValidToken" THEN "set" ELSE "getMe", "saved")]
  /\ UNCHANGED <<dateNow, tokens, user, isLoading, isAuthenticated, issued>>
  /\ AuthOthersUnchanged

\* getValidToken: set({ tokens }); return tokens.access_token
SetTokens(c) ==
  /\ calls[c].pc = "set"
  /\ tokens' = calls[c].local
  /\ calls' = [calls EXCEPT ![c] =
       Settled_(@, Num(@.local.access_token), "set")]
  /\ UNCHANGED <<dateNow, user, isLoading, isAuthenticated, persisted, issued>>
  /\ AuthOthersUnchanged

\* await clearTokens()
ClearTokens(c) ==
  /\ calls[c].pc = "clear"
  /\ persisted' = Null
  /\ calls' = [calls EXCEPT ![c] =
       Moved(@, IF @.op = "initialize" THEN "finally" ELSE "unset", "cleared")]
  /\ UNCHANGED <<dateNow, tokens, user, isLoading, isAuthenticated, issued>>
  /\ AuthOthersUnchanged

\* set({ tokens: null, user: null, isAuthenticated: false }), the last step
\* of logout and of the catch of getValidToken, which then returns null.
Unset(c) ==
  /\ calls[c].pc = "unset"
  /\ tokens' = Null
  /\ user' = Null
  /\ isAuthenticated' = FALSE
  /\ calls' = [calls EXCEPT ![c] =
       Settled_(@, IF @.op = "getValidToken" THEN Null ELSE Resolved, "unset")]
  /\ UNCHANGED <<dateNow, isLoading, persisted, issued>>
  /\ AuthOthersUnchanged

\* logout, up to its first await: revokeToken when a pair is held, else
\* clearTokens.
logout(c) ==
  /\ CanStart(c)
  /\ calls' = [calls EXCEPT ![c] =
       IF tokens # Null
       THEN Moved(NewCall("logout", "start"), "revoke", "held")
       ELSE Moved(NewCall("logout", "start"), "clear", "none")]
  /\ UNCHANGED <<dateNow, tokens, user, isLoading, isAuthenticated, persisted, issued>>
  /\ AuthOthersUnchanged

\* revokeToken answers or fails.
RevokeResponse(c) ==
  /\ calls[c].pc = "revoke"
  /\ \E ok \in BOOLEAN :
       calls' = [calls EXCEPT ![c] =
         IF AfterRevoke(ok) = "done"
         THEN Settled_(@, [tag |-> "rejected"], "revokeFailed")
         ELSE Moved(@, AfterRevoke(ok), IF ok THEN "revoked" ELSE "revokeFailed")]
  /\ UNCHANGED <<dateNow, tokens, user, isLoading, isAuthenticated, persisted, issued>>
  /\ AuthOthersUnchanged

\* handleCallback(code), up to its first await.
handleCallback(c) ==
  /\ CanStart(c)
  /\ isLoading' = TRUE
  /\ calls' = [calls EXCEPT ![c] = NewCall("handleCallback", "exchange")]
  /\ UNCHANGED <<dateNow, tokens, user, isAuthenticated, persisted, issued>>
  /\ AuthOthersUnchanged

\* exchangeCodeForTokens answers a pair or fails; a failure leaves through
\* the finally block and rejects.
ExchangeResponse(c) ==
  /\ calls[c].pc = "exchange"
  /\ \E ok \in BOOLEAN :
       /\ ok => issued < MaxPairs
       /\ issued' = IF ok THEN issued + 1 ELSE issued
       /\ IF AfterExchange(ok) = "done"
          THEN /\ calls' = [calls EXCEPT ![c] =
                    Settled_(@, [tag |-> "rejected"], "exchangeFailed")]
               /\ isLoading' = FinallyLoading(isLoading)
          ELSE /\ calls' = [calls EXCEPT ![c] =
                    [Moved(@, AfterExchange(ok), "exchanged") EXCEPT
                       !.local = Pair(issued + 1, dateNow \div MsPerSecond)]]
               /\ UNCHANGED isLoading
  /\ UNCHANGED <<dateNow, tokens, user, isAuthenticated, persisted>>
  /\ AuthOthersUnchanged

\* getMe answers the profile or fails (handleCallback, initialize).
GetMeResponse(c) ==
  /\ calls[c].pc = "getMe"
  /\ \E ok \in BOOLEAN :
       IF ok
       THEN /\ tokens' = calls[c].local
            /\ user' = Profile
            /\ isAuthenticated' = TRUE
            /\ isLoading' = FinallyLoading(isLoading)
            /\ calls' = [calls EXCEPT ![c] = Settled_(@, Resolved, "profile")]
            /\ UNCHANGED persisted
       ELSE IF calls[c].op = "handleCallback"
       THEN /\ isLoading' = FinallyLoading(isLoading)
            /\ calls' = [calls EXCEPT ![c] =
                 Settled_(@, [tag |-> "rejected"], "profileFailed")]
            /\ UNCHANGED <<tokens, user, isAuthenticated, persisted>>
       ELSE /\ calls' = [calls EXCEPT ![c] = Moved(@, "clear", "profileFailed")]
            /\ UNCHANGED <<tokens, user, isAuthenticated, isLoading, persisted>>
  /\ UNCHANGED <<dateNow, issued>>
  /\ AuthOthersUnchanged

\* initialize, up to its first await.
initialize(c) ==
  /\ CanStart(c)
  /\ isLoading' = TRUE
  /\ calls' = [calls EXCEPT ![c] = NewCall("initialize", "load")]
  /\ UNCHANGED <<dateNow, tokens, user, isAuthenticated, persisted, issued>>
  /\ AuthOthersUnchanged

\* initialize: loadTokens answers; nothing stored ends the call, an expired
\* pair is refreshed, else the profile is fetched.
LoadTokens(c) ==
  /\ calls[c].pc = "load"
  /\ IF persisted = Null
     THEN /\ isLoading' = FinallyLoading(FALSE)
          /\ calls' = [calls EXCEPT ![c] = Settled_(@, Resolved, "nothingStored")]
     ELSE /\ UNCHANGED isLoading
          /\ calls' = [calls EXCEPT ![c] =
               [Moved(@, IF isTokenExpired(persisted, dateNow)
                         THEN "refresh" ELSE "getMe", "loaded")
                  EXCEPT !.local = persisted]]
  /\ UNCHANGED <<dateNow, tokens, user, isAuthenticated, persisted, issued>>
  /\ AuthOthersUnchanged

\* initialize: finally { set({ isLoading: false }) } after the catch.
Finally(c) ==
  /\ calls[c].pc = "finally"
  /\ isLoading' = FinallyLoading(isLoading)
  /\ calls' = [calls EXCEPT ![c] = Settled_(@, Resolved, "finally")]
  /\ UNCHANGED <<dateNow, tokens, user, isAuthenticated, persisted, issued>>
  /\ AuthOthersUnchanged

getValidTokenSome == \E c \in Calls : getValidToken(c)
RefreshResponseSome == \E c \in Calls : RefreshResponse(c)
SaveTokensSome == \E c \in Calls : SaveTokens(c)
SetTokensSome == \E c \in Calls : SetTokens(c)
ClearTokensSome == \E c \in Calls : ClearTokens(c)
UnsetSome == \E c \in Calls : Unset(c)
logoutSome == \E c \in Calls : logout(c)
RevokeResponseSome == \E c \in Calls : RevokeResponse(c)
handleCallbackSome == \E c \in Calls : handleCallback(c)
ExchangeResponseSome == \E c \in Calls : ExchangeResponse(c)
GetMeResponseSome == \E c \in Calls : GetMeResponse(c)
initializeSome == \E c \in Calls : initialize(c)
LoadTokensSome == \E c \in Calls : LoadTokens(c)
FinallySome == \E c \in Calls : Finally(c)

AuthNext ==
  \/ Tick
  \/ getValidTokenSome
  \/ RefreshResponseSome
  \/ SaveTokensSome
  \/ SetTokensSome
  \/ ClearTokensSome
  \/ UnsetSome
  \/ logoutSome
  \/ RevokeResponseSome
  \/ handleCallbackSome
  \/ ExchangeResponseSome
  \/ GetMeResponseSome
  \/ initializeSome
  \/ LoadTokensSome
  \/ FinallySome

AuthSpec == AuthInit /\ [][AuthNext]_vars

\* Steps of call c, read off its record before and after.
Steps(c) == calls'[c] # calls[c]
Returns(c) == Steps(c) /\ calls'[c].pc = "done"
LastStep(call) == call.trail[Len(call.trail)]
StoreUnauthenticated == tokens = Null /\ user = Null /\ ~isAuthenticated
\* Expired as the claims define it: the time is past created_at + expires_in
\* seconds less five minutes.
ExpiredAt(pair, ms) ==
  ms > (pair.created_at + pair.expires_in) * 1000 - 5 * 60 * 1000

\* C15: getValidToken returns null when no pair is held and the held pair's
\* access token when that pair is not expired at the call; when the held pair
\* is expired at the call it never returns that pair's access token: it either
\* returns null or has refreshed, then persisted, then stored a new pair, and
\* returns the new pair's access token.
C15_NeverReturnsExpiredToken ==
  [][\A c \in Calls :
       /\ (Returns(c) /\ calls'[c].op = "getValidToken") =>
            LET call == calls'[c]
            IN  /\ call.held = Null => call.result = Null
                /\ (call.held # Null /\ ~ExpiredAt(call.held, call.calledAt)) =>
                     call.result = Num(call.held.access_token)
                /\ (call.held # Null /\ ExpiredAt(call.held, call.calledAt)) =>
                     /\ call.result # Num(call.held.access_token)
                     /\ call.result # Null =>
                          /\ call.trail = <<"expired", "refreshed", "saved", "set">>
                          /\ call.local.tag = "pair"
                          /\ call.local # call.held
                          /\ call.result = Num(call.local.access_token)
                          /\ tokens' = call.local
       /\ (Steps(c) /\ calls[c].op = "getValidToken" /\ calls[c].pc = "save") =>
            /\ persisted' = calls[c].local
            /\ tokens' = tokens
    ]_vars

C15_Witness ==
  \E c \in Calls :
    /\ calls[c].op = "getValidToken"
    /\ calls[c].pc = "done"
    /\ calls[c].held # Null
    /\ ExpiredAt(calls[c].held, calls[c].calledAt)
    /\ calls[c].trail = <<"expired", "refreshed", "saved", "set">>
    /\ calls[c].result = Num(calls[c].local.access_token)
    /\ calls[c].local.access_token # calls[c].held.access_token
    /\ tokens = calls[c].local
    /\ persisted = calls[c].local

\* C16: when the refresh request of getValidToken fails, the call sends no
\* second request: its next step clears the persisted credentials, its last
\* step sets tokens = null, user = null, isAuthenticated = false, and it
\* returns null, not an error.
C16_FailedRefreshDeauthenticates ==
  [][\A c \in Calls :
       (Steps(c) /\ calls[c].op = "getValidToken") =>
         /\ (calls[c].pc = "refresh" /\ LastStep(calls'[c]) = "refreshFailed") =>
              /\ calls'[c].pc = "clear"
              /\ UNCHANGED <<issued, persisted, tokens, user, isAuthenticated>>
         /\ calls[c].pc = "clear" =>
              /\ persisted' = Null
              /\ calls'[c].pc = "unset"
         /\ calls[c].pc = "unset" =>
              /\ tokens' = Null /\ user' = Null /\ isAuthenticated' = FALSE
              /\ calls'[c].pc = "done"
              /\ calls'[c].result = Null
              /\ calls'[c].trail = <<"expired", "refreshFailed", "cleared", "unset">>
    ]_vars

C16_Witness ==
  \E c \in Calls :
    /\ calls[c].op = "getValidToken"
    /\ calls[c].pc = "done"
    /\ calls[c].held # Null
    /\ calls[c].trail = <<"expired", "refreshFailed", "cleared", "unset">>
    /\ calls[c].result = Null
    /\ persisted = Null
    /\ StoreUnauthenticated

\* C17: a logout goes on to clear the persisted credentials whether the
\* revocation request succeeds or fails (and when no pair is held), and its
\* last step leaves tokens = null, user = null, isAuthenticated = false; it
\* never ends before both.
C17_LogoutAlwaysClears ==
  [][\A c \in Calls :
       (Steps(c) /\ calls[c].op = "logout" /\ calls[c].pc # "done") =>
         /\ calls[c].pc = "revoke" => calls'[c].pc = "clear"
         /\ calls[c].pc = "clear" =>
              /\ persisted' = Null
              /\ calls'[c].pc = "unset"
         /\ calls[c].pc = "unset" =>
              /\ tokens' = Null /\ user' = Null /\ isAuthenticated' = FALSE
         /\ calls'[c].pc = "done" =>
              /\ calls[c].pc = "unset"
              /\ calls'[c].result = Resolved
              /\ \E k \in DOMAIN calls'[c].trail : calls'[c].trail[k] = "cleared"
    ]_vars

C17_Witness ==
  \E c \in Calls :
    /\ calls[c].op = "logout"
    /\ calls[c].pc = "done"
    /\ calls[c].held # Null
    /\ calls[c].trail = <<"held", "revokeFailed", "cleared", "unset">>
    /\ persisted = Null
    /\ StoreUnauthenticated

\* C18: a handleCallback call writes to the credential storage only right
\* after a successful exchange, and to tokens, user and isAuthenticated only
\* after the exchange, the save and the profile fetch, in that order, all of
\* them successful; when the exchange fails the call ends at once with a
\* rejection and has changed neither the storage nor tokens, user and
\* isAuthenticated.
C18_CallbackAuthenticatesInOrder ==
  [][\A c \in Calls :
       (Steps(c) /\ calls'[c].op = "handleCallback") =>
         /\ persisted' # persisted =>
              /\ calls'[c].trail = <<"exchanged", "saved">>
              /\ persisted' = calls'[c].local
         /\ <<tokens, user, isAuthenticated>>' # <<tokens, user, isAuthenticated>> =>
              /\ calls'[c].trail = <<"exchanged", "saved", "profile">>
              /\ isAuthenticated' /\ user' # Null
              /\ tokens' = calls'[c].local
         /\ (isAuthenticated' /\ calls'[c].pc = "done"
               /\ calls'[c].result = Resolved) =>
              calls'[c].trail = <<"exchanged", "saved", "profile">>
         /\ (calls[c].pc = "exchange" /\ LastStep(calls'[c]) = "exchangeFailed") =>
              /\ calls'[c].pc = "done"
              /\ calls'[c].result = [tag |-> "rejected"]
              /\ UNCHANGED <<tokens, user, isAuthenticated, persisted>>
    ]_vars

C18_Witness ==
  /\ \E c \in Calls :
       /\ calls[c].op = "handleCallback"
       /\ calls[c].pc = "done"
       /\ calls[c].trail = <<"exchanged", "saved", "profile">>
       /\ isAuthenticated
       /\ tokens = calls[c].local
       /\ persisted = calls[c].local
  /\ \E c \in Calls :
       /\ calls[c].op = "handleCallback"
       /\ calls[c].trail = <<"exchangeFailed">>
       /\ calls[c].result = [tag |-> "rejected"]

\* ===================================================== the home screen
\* The sub-filter a section of the home screen applies to its bucket.

FilterValue == {"All", "Ended", "Returning Series", "Canceled", "Finished"}

\* filterShows(shows, filter)
filterShows(list, filter) ==
  IF filter = "All" THEN list
  ELSE IF filter = "Ended"
       THEN FilterSeq(list, LAMBDA s : s.show.status = "ended" /\ s.category # "watching")
  ELSE IF filter = "Returning Series"
       THEN FilterSeq(list, LAMBDA s : s.show.status = "returning series"
                                         \/ s.show.status = "continuing")
  ELSE IF filter = "Canceled"
       THEN FilterSeq(list, LAMBDA s : s.show.status = "canceled" /\ s.category # "watching")
  ELSE IF filter = "Finished"
       THEN FilterSeq(list, LAMBDA s : s.category = "watching")
  ELSE list

\* The entries of a list with one of the given raw statuses, in list order.
WithStatus(list, statuses) == FilterSeq(list, LAMBDA s : s.show.status \in statuses)
Buckets == {watching, watchlist, running, waiting, ended}

\* C21: applied to any bucket, 'Ended' keeps exactly the entries with status
\* 'ended', 'Canceled' exactly those with status 'canceled', 'Returning
\* Series' exactly those with status 'returning series' or 'continuing',
\* whatever the category of the entries, and 'All' keeps every entry.
C21_SubFiltersByRawStatus ==
  \A bucket \in Buckets :
    /\ filterShows(bucket, "All") = bucket
    /\ filterShows(bucket, "Ended") = WithStatus(bucket, {"ended"})
    /\ filterShows(bucket, "Canceled") = WithStatus(bucket, {"canceled"})
    /\ filterShows(bucket, "Returning Series")
         = WithStatus(bucket, {"returning series", "continuing"})

\* ================================================== dateUtils: countdown
\* daysUntil and countdownLabel called on an air date at some reading of the
\* clock. Instants are whole hours, as in the rest of the model.

\* date-fns differenceInHours: the full hours between two instants.
DifferenceInHours(left, right) == left - right
\* Math.round(a / b) for a >= 0 and b > 0
RoundDiv(a, b) == (2 * a + b) \div (2 * b)
\* A label: its template and the number the template interpolates (0: none).
Label(text, n) == [tag |-> "label", text |-> text, n |-> n]

\* Mutant: one day ahead is counted in days like the following days.
countdownLabel_NoTomorrow(isoDate, clock) ==
  IF ~IsNum(isoDate) THEN Label("TBA", 0)
  ELSE LET days == DifferenceInDays(isoDate.v, clock)
       IN  IF days < 0 THEN Label("Aired", 0)
           ELSE IF days = 0 THEN Label("Airing now", 0)
           ELSE Label("In ${days} days", days)
\* countdownLabel(isoDate)
countdownLabel(isoDate, clock) ==
  IF ~IsNum(isoDate) THEN Label("TBA", 0)
  ELSE LET days == DifferenceInDays(isoDate.v, clock)
           hours == DifferenceInHours(isoDate.v, clock)
       IN  IF days < 0 THEN Label("Aired", 0)
           ELSE IF days = 0
                THEN IF hours <= 0 THEN Label("Airing now", 0)
                     ELSE Label("Today in ${hours}h", hours)
           ELSE IF days = 1 THEN Label("Tomorrow", 0)
           ELSE IF days < 7 THEN Label("In ${days} days", days)
           ELSE IF days < 14 THEN Label("Next week", 0)
           ELSE IF days < 30 THEN Label("In ${Math.round(days / 7)} weeks", RoundDiv(days, 7))
           ELSE IF days < 365
                THEN Label("In ${Math.round(days / 30)} months", RoundDiv(days, 30))
           ELSE Label("In ${Math.round(days / 365)} years", RoundDiv(days, 365))

\* The air dates under study lie up to MaxDaysAhead days ahead of the clock.
MaxDaysAhead == 8
\* Readings of the clock: midnight, 01:00, noon and 23:00 of one day, and the
\* following midnight.
DateClocks == {HoursPerDay * 100 + h : h \in {0, 1, 12, 23, HoursPerDay}}
\* Air dates as offsets from the first reading, in hours: every hour from two
\* days back to MaxDaysAhead days ahead, then some days further ahead.
DateOffsets ==
  (-(2 * HoursPerDay))..(MaxDaysAhead * HoursPerDay)
    \cup {HoursPerDay * d : d \in {13, 14, 29, 30, 45, 364, 365, 400}}
    \cup {HoursPerDay * d + 5 : d \in {13, 29, 364}}

DateInit ==
  /\ now \in NowSamples
  /\ pc = "start"
  /\ watchlistResp = NotAsked
  /\ watchedResp = NotAsked
  /\ detailResps = <<>>
  /\ allShows = <<>>
  /\ progressResps = <<>>
  /\ nextResps = <<>>
  /\ enriched = <<>>
  /\ data = Undefined
  /\ queryStatus = "pending"
  /\ serverWatchlist = {}
  /\ serverWatched = {}
  /\ fetchState = "idle"
  /\ fetchResult = NotAsked
  /\ mutations = <<>>
  /\ dateNow = 0
  /\ tokens = Null
  /\ user = Null
  /\ isLoading = TRUE
  /\ isAuthenticated = FALSE
  /\ persisted = Null
  /\ issued = 0
  /\ calls = <<>>
  /\ wallClock \in DateClocks
  /\ airDate \in {Null, Undefined} \cup {Num(wallClock + o) : o \in DateOffsets}
  /\ daysResult = NotAsked
  /\ labelResult = NotAsked
  /\ rendered = NotAsked

DateOthersUnchanged == UNCHANGED <<passVars, data, queryStatus, cacheVars, authVars, viewVars>>

\* Time passes between two calls.
DateTick ==
  /\ \E t \in DateClocks : t > wallClock /\ wallClock' = t
  /\ UNCHANGED <<airDate, daysResult, labelResult>>
  /\ DateOthersUnchanged

\* daysUntil(airDate), with now = new Date() read inside the call
CallDaysUntil ==
  /\ daysResult' = daysUntil(airDate, wallClock)
  /\ UNCHANGED <<airDate, wallClock, labelResult>>
  /\ DateOthersUnchanged

\* countdownLabel(airDate), with now = new Date() read inside the call
CallCountdownLabel ==
  /\ labelResult' = countdownLabel(airDate, wallClock)
  /\ UNCHANGED <<airDate, wallClock, daysResult>>
  /\ DateOthersUnchanged

DateNext ==
  \/ DateTick
  \/ CallDaysUntil
  \/ CallCountdownLabel

DateSpec == DateInit /\ [][DateNext]_vars

\* The calendar day an instant lies on.
CalendarDay(t) == FloorDiv(t, HoursPerDay)

\* C22: daysUntil returns a negative number for every air date on a calendar
\* day before the current day, zero exactly for the air dates on the current
\* calendar day, a positive number for the air dates on later calendar days,
\* and null when no date is given.
C22_CalendarDaySemantics ==
  [][CallDaysUntil =>
       IF ~IsNum(airDate) THEN daysResult' = Null
       ELSE /\ IsNum(daysResult')
            /\ CalendarDay(airDate.v) < CalendarDay(wallClock) => daysResult'.v < 0
            /\ CalendarDay(airDate.v) = CalendarDay(wallClock) <=> daysResult'.v = 0
            /\ CalendarDay(airDate.v) > CalendarDay(wallClock) => daysResult'.v > 0]_vars

\* The air date lies exactly n whole days after the reading of the clock.
WholeDaysAhead(n) == IsNum(airDate) /\ airDate.v - wallClock = n * HoursPerDay

\* C23: for an air date exactly N whole days after the current instant,
\* daysUntil returns N, and countdownLabel returns 'Tomorrow' when N = 1 and
\* 'In N days' when 2 <= N < 7.
C23_WholeDaysRoundTrip ==
  [][\A n \in 0..(MaxDaysAhead + 1) :
       WholeDaysAhead(n) =>
         /\ CallDaysUntil => daysResult' = Num(n)
         /\ (CallCountdownLabel /\ n = 1) => labelResult' = Label("Tomorrow", 0)
         /\ (CallCountdownLabel /\ 2 <= n /\ n < 7) =>
              labelResult' = Label("In ${days} days", n)]_vars

C23_Witness ==
  /\ WholeDaysAhead(3)
  /\ daysResult = Num(3)
  /\ labelResult = Label("In ${days} days", 3)

\* ============================================ useCategorizedShows, rendered
\* The hook runs at every render of a screen, against the array the allShows
\* query caches at that moment.

\* Mutant: the two sorts order the cached array itself.
CachedAfterRender_SortedInPlace(list) ==
  StableSort(StableSort(list, WatchingSortKey), RunningSortKey)
\* The cached array after a run of the hook: filter returns a new array, and
\* sort orders the array filter returned, so the cached array is not written.
CachedAfterRender(list) == list

\* { watching, watchlist, running, waiting, ended, isLoading, error, refetch }
Categorized ==
  [tag |-> "buckets", watching |-> watching, watchlist |-> watchlist,
   running |-> running, waiting |-> waiting, ended |-> ended,
   queryStatus |-> queryStatus]

Render ==
  /\ rendered' = Categorized
  /\ data' = IF data.tag = "list" THEN List(CachedAfterRender(data.items)) ELSE data
  /\ UNCHANGED <<passVars, queryStatus, cacheVars, authVars, dateVars>>

RenderNext ==
  \/ Next
  \/ Render

RenderSpec == Init /\ [][RenderNext]_vars

\* The buckets of a render result.
BucketsOf(r) == <<r.watching, r.watchlist, r.running, r.waiting, r.ended>>
\* The allShows query has not written its cache since the last render.
SameListAsRendered == rendered # NotAsked /\ rendered.queryStatus = queryStatus

OverlappingAddsSettled ==
  /\ \A m \in Mutations :
       IsAdd(mutations[m]) /\ mutations[m].state \in {"error", "success"}
  /\ \E m \in Mutations : mutations[m].overlaps
\* The remote add of the show failed, and no other add of it succeeded.
AddFailed(id) ==
  /\ \E m \in Mutations : mutations[m].traktId = id /\ mutations[m].state = "error"
  /\ \A m \in Mutations : mutations[m].traktId = id => mutations[m].state = "error"
\* The cached list holds the optimistic entry of an add of the show.
HoldsOptimisticEntry(id) ==
  /\ data.tag = "list"
  /\ \E m \in Mutations, k \in DOMAIN data.items :
       /\ mutations[m].traktId = id
       /\ mutations[m].show # Undefined
       /\ data.items[k] = OptimisticEntry(mutations[m].show)

\* C25: once two or more overlapping add-to-watchlist mutations have all
\* settled, the cached list holds no optimistic entry for a show whose remote
\* add call failed.
C25_NoOptimisticEntryAfterFailedAdd ==
  OverlappingAddsSettled =>
    \A id \in ShowIds : AddFailed(id) => ~HoldsOptimisticEntry(id)

\* C26: in every reachable state of the auth store, under any interleaving of
\* initialize, handleCallback, logout and getValidToken, isAuthenticated is
\* true exactly when tokens is non-null; a refresh in flight when logout ran
\* does not leave tokens set after the logout.
C26_AuthenticatedIffTokens == isAuthenticated <=> tokens # Null

\* No operation of the store is in flight.
AuthIdle == \A c \in Calls : calls[c].pc \in {"idle", "done"}

\* The initialize call of the root layout has ended.
Initialized == \E c \in Calls : calls[c].op = "initialize" /\ calls[c].pc = "done"

\* C27: whenever the store, once initialised, is unauthenticated and no
\* operation is in flight, the credential storage holds no token pair: every
\* path that ends unauthenticated leaves nothing persisted.
C27_UnauthenticatedNothingPersisted ==
  (Initialized /\ AuthIdle /\ ~isAuthenticated) => persisted = Null

\* The entries of a cached value or of a query result, if it is a list.
ItemsOf(value) == IF value.tag = "list" THEN Range(value.items) ELSE {}
\* The entries the enrichment map of the pass has returned so far.
EnrichedEntries == Range(enriched) \ {NotAsked, Rejected}

\* C28: every entry returned by an enrichment pass and every entry ever
\* present in the cached list, the optimistic and success-time inserts
\* included, has category 'watching' or 'watchlist'; 'running', 'waiting' and
\* 'ended' are never assigned.
C28_OnlyTwoCategories ==
  \A s \in ItemsOf(data) \cup ItemsOf(fetchResult) \cup EnrichedEntries :
    s.category \in {"watching", "watchlist"}

\* The cache holds a show being watched that a pass returned and the
\* optimistic entry of an add in flight.
C28_Witness ==
  /\ \E s \in ItemsOf(data) : s.category = "watching"
  /\ \E m \in Mutations :
       /\ IsAdd(mutations[m])
       /\ mutations[m].state = "pending"
       /\ mutations[m].show # Undefined
       /\ ~InCachedList(mutations[m].prev, mutations[m].traktId)
       /\ OptimisticEntry(mutations[m].show) \in ItemsOf(data)

\* The positions of the show in a cached list.
PositionsOf(list, id) == {k \in DOMAIN list.items : list.items[k].show.ids = id}

\* C29: in every reachable state the cached list holds at most one entry per
\* show identifier, across enrichment passes, optimistic inserts at mutation
\* start, inserts at mutation success and rollbacks at mutation failure.
C29_OneCachedEntryPerShow ==
  data.tag = "list" => \A id \in ShowIds : Cardinality(PositionsOf(data, id)) <= 1

\* An add whose optimistic entry was inserted at its start has succeeded, and
\* another add has been rolled back; the show of the first is cached once.
C29_Witness ==
  /\ data.tag = "list"
  /\ \E m, n \in Mutations :
       /\ IsAdd(mutations[m]) /\ IsAdd(mutations[n])
       /\ mutations[m].state = "success"
       /\ mutations[m].show # Undefined
       /\ ~InCachedList(mutations[m].prev, mutations[m].traktId)
       /\ mutations[m].prev.tag = "list"
       /\ ~mutations[m].refetched
       /\ mutations[n].state = "error"
       /\ mutations[n].prev.tag = "list"
       /\ Cardinality(PositionsOf(data, mutations[m].traktId)) = 1

\* ------------------------------------------------ the auth store, fair
\* Every request that was sent is answered and every continuation of a call
\* runs: the next step of a call that has started is taken, while nothing
\* obliges the application to start a call or the clock to move.
Continue(c) ==
  \/ RefreshResponse(c)
  \/ SaveTokens(c)
  \/ SetTokens(c)
  \/ ClearTokens(c)
  \/ Unset(c)
  \/ RevokeResponse(c)
  \/ ExchangeResponse(c)
  \/ GetMeResponse(c)
  \/ LoadTokens(c)
  \/ Finally(c)
AuthProgress(c) == WF_vars(Continue(c))

\* The clock moves past the instant the stored pair is due for refresh.
ExpiryTick == Tick /\ dateNow' = RefreshDue + 1

AuthLiveNext ==
  \/ ExpiryTick
  \/ getValidTokenSome
  \/ RefreshResponseSome
  \/ SaveTokensSome
  \/ SetTokensSome
  \/ ClearTokensSome
  \/ UnsetSome
  \/ logoutSome
  \/ RevokeResponseSome
  \/ handleCallbackSome
  \/ ExchangeResponseSome
  \/ GetMeResponseSome
  \/ initializeSome
  \/ LoadTokensSome
  \/ FinallySome

AuthLiveSpec == AuthInit /\ [][AuthLiveNext]_vars /\ \A c \in Calls : AuthProgress(c)

\* enabled: isAuthenticated && !isAuthLoading
allShowsEnabled == isAuthenticated /\ ~isLoading

\* Call c is an initialize or a handleCallback that has not ended.
SigningIn(c) ==
  calls[c].op \in {"initialize", "handleCallback"} /\ calls[c].pc # "done"
\* Call c has ended and has left isLoading false.
SignInEnded(c) == calls[c].pc = "done" /\ ~isLoading

\* C30: every initialize call and every handleCallback call eventually sets
\* isLoading to false, whether the storage load, the token refresh, the code
\* exchange or the profile fetch succeeds or fails, provided every request
\* eventually returns.
C30_SignInEndsLoading == \A c \in Calls : SigningIn(c) ~> SignInEnded(c)

\* A handleCallback whose profile fetch failed and an initialize whose refresh
\* failed have both ended; isLoading is false and the query stays disabled.
C30_Witness ==
  /\ \E c \in Calls :
       /\ calls[c].op = "handleCallback"
       /\ calls[c].trail = <<"exchanged", "saved", "profileFailed">>
       /\ calls[c].pc = "done"
  /\ \E c \in Calls :
       /\ calls[c].op = "initialize"
       /\ calls[c].trail = <<"loaded", "refreshFailed", "cleared", "finally">>
       /\ calls[c].pc = "done"
  /\ ~isLoading
  /\ ~allShowsEnabled

====
